---------------------------- MODULE Spec2Model ----------------------------
(***************************************************************************)
(* Model of the conversation session engine (ChatbotService) and of the    *)
(* authenticated-fetch wrapper (AuthService.authenticatedFetch) of the     *)
(* agent-hub Angular client.                                               *)
(*                                                                         *)
(* The JavaScript event loop is single threaded: every handler runs to its *)
(* next network await without interruption.  One action of the model is    *)
(* one such run: the start of an async method up to its first await, or    *)
(* the continuation that runs when the awaited promise settles.            *)
(***************************************************************************)
EXTENDS Integers, Sequences, FiniteSets, TLC

(***************************************************************************)
(* Bounds of the model.                                                    *)
(***************************************************************************)
MaxCalls == 4        \* engine operations invoked in one behaviour
MaxInFlight == 2     \* engine network calls outstanding together
MaxNewQueries == 2   \* queries the server creates in one behaviour
PageSize == 1        \* queries per page (fixed by the server)
MaxAuthCalls == 2    \* authenticatedFetch calls in one behaviour
MaxTokens == 3       \* token pairs the server issues in one behaviour
MaxServerQueries == 3 \* queries a chat holds on the server when paging starts

ChatIds == {"c1", "c2"}          \* chats the server holds initially
NewChatId == "c3"                \* id the server gives a created chat
LocalChatId == "l1"              \* Date.now().toString() of a local chat
Messages == {"m1"}               \* user messages
\* JavaScript null for the temp chat (a record, to be comparable with one)
NoChat == [id |-> "null", totalQueries |-> 0, queries |-> <<>>]
AllChatIds == ChatIds \cup {NewChatId, LocalChatId}

VARIABLES
    chats,          \* ChatbotService._chats : Map<string, Chat>
    chatsState,     \* ChatbotService._chatsState
    chatsPages,     \* ChatbotService._chatsPages : Map<string, number>
    tempChat,       \* ChatbotService._tempChat
    lastUsedChat,   \* ChatbotService._lastUsedChat
    calls,          \* async engine methods suspended at their await
    nCalls,         \* engine operations invoked so far
    lastOp,         \* the handler that ran last and how it ended
    srvChats,       \* the backend's chats and their queries
    srvNext,        \* queries the backend has created so far
    localChats,     \* localStorage nexus-chats: chat id -> first message
    abandoned,      \* abortLastQuery discarded a temp chat, no createChat since
    requested,      \* per chat, the pages requested since its cursor was set to 1
    accessToken,    \* localStorage agent_hub_access_token (0: absent)
    refreshTok,     \* localStorage agent_hub_refresh_token (0: absent)
    isAuthenticated,\* AuthService._isAuthenticated
    authCalls,      \* authenticatedFetch calls and their position
    logouts,        \* AuthService.logout calls awaiting /auth/logout
    issued          \* token pairs the backend has issued so far

engineVars == <<chats, chatsState, chatsPages, tempChat, lastUsedChat,
                calls, nCalls, lastOp, srvChats, srvNext, localChats,
                abandoned, requested>>
authVars == <<accessToken, refreshTok, isAuthenticated, authCalls, logouts,
              issued>>
vars == <<engineVars, authVars>>

(***************************************************************************)
(* The data model: Query and Chat records (immutable Records in the code). *)
(***************************************************************************)
\* queryRecord's defaults: a Query built without a field gets these.
QueryDefaults ==
    [id |-> "", message |-> "", response |-> "", status |-> "null",
     errorMessage |-> "null"]

\* ChatbotService._createDummyQuery: only the message is given, so the id
\* is the record's default, the empty string.
CreateDummyQuery(message) ==
    [QueryDefaults EXCEPT !.message = message]

\* A rejection reason: a genuine Error carries its message; anything else
\* (HttpClient's HttpErrorResponse is no instance of Error) does not.
NoAgentError == [isError |-> TRUE, message |-> "No agent selected"]

HttpError == [isError |-> FALSE, message |-> "Http failure response"]

\* What a localStorage access of a fallback throws (a DOMException).
StorageError == [isError |-> TRUE, message |-> "SecurityError"]

Errors == {NoAgentError, HttpError}

\* The failed query sendQuery builds in its catch block.
SendFailedQuery(dummy, message, error) ==
    [id |-> dummy.id, message |-> message, response |-> "",
     status |-> "failed",
     errorMessage |-> IF error.isError THEN error.message
                      ELSE "An unexpected error occurred. Please try again."]

\* The failed query createChat builds in its catch block.
CreateFailedQuery(dummy, message, error) ==
    [id |-> dummy.id, message |-> message, response |-> "",
     status |-> "failed",
     errorMessage |-> IF error.isError THEN error.message
                      ELSE "Failed to create chat. Please try again."]

\* mapQuery: an ApiQuery payload {id, message, response}; the wire type has
\* no status and no error_message, so both map to null.
MapQuery(raw) ==
    [id |-> raw.id, message |-> raw.message, response |-> raw.response,
     status |-> "null", errorMessage |-> "null"]

RECURSIVE MapQueries(_)
MapQueries(raws) ==
    IF raws = <<>> THEN <<>>
    ELSE <<MapQuery(Head(raws))>> \o MapQueries(Tail(raws))

\* mapChat: queries come from chat.queries || chat.items || [].
MapChat(raw) ==
    [id |-> raw.id, totalQueries |-> raw.total_queries,
     queries |-> MapQueries(raw.queries)]

\* The temp chat: new Chat({queries: List([q])}).
TempChatOf(q) == [id |-> "", totalQueries |-> 0, queries |-> <<q>>]

(***************************************************************************)
(* Immutable.js List and Map primitives.                                   *)
(***************************************************************************)
\* List.pop(): the list without its last element; an empty list stays empty.
Pop(qs) == IF qs = <<>> THEN <<>> ELSE SubSeq(qs, 1, Len(qs) - 1)

\* List.push(q)
Push(qs, q) == Append(qs, q)

\* Map.set(k, v)
MapSet(m, k, v) == [x \in DOMAIN m \cup {k} |-> IF x = k THEN v ELSE m[x]]

\* Map.delete(k)
MapDelete(m, k) == [x \in DOMAIN m \ {k} |-> m[x]]

\* A concat that keeps only the entries of other.
MapConcatOtherOnly(m, other) == other

\* Map.concat(other): entries of other replace entries with the same key.
MapConcat(m, other) ==
    [x \in DOMAIN m \cup DOMAIN other |->
        IF x \in DOMAIN other THEN other[x] ELSE m[x]]

EmptyMap == [x \in {} |-> 0]

(***************************************************************************)
(* ChatbotService._updateChatQueries                                       *)
(***************************************************************************)
\* A filter that keeps every entry.
UniqueQueriesKeepAll(qs) == qs

\* The filter by id: an entry survives iff it is the first with its id.
UniqueQueries(qs) ==
    LET F[i \in 0..Len(qs)] ==
            IF i = 0 THEN <<>>
            ELSE IF \E j \in 1..(i - 1) : qs[j].id = qs[i].id
                 THEN F[i - 1]
                 ELSE Append(F[i - 1], qs[i])
    IN F[Len(qs)]

\* totalChange: +1, -1 or 0 by the sizes, only when syncing.
TotalChange(oldSize, newSize, syncTotalCount) ==
    IF ~syncTotalCount THEN 0
    ELSE IF newSize > oldSize THEN 1
    ELSE IF newSize < oldSize THEN -1
    ELSE 0

\* UpdateChatQueries with the total change taken from the size of the list
\* before the filter.
UpdateChatQueriesPreFilter(chs, chatId, updated, syncTotalCount) ==
    LET chat == chs[chatId]
        uniqueQueries == UniqueQueries(updated)
        updatedQueries == IF Len(uniqueQueries) # Len(updated)
                          THEN uniqueQueries ELSE updated
        newChat == [chat EXCEPT
                      !.queries = updatedQueries,
                      !.totalQueries = chat.totalQueries +
                          TotalChange(Len(chat.queries), Len(updated),
                                      syncTotalCount)]
    IN MapSet(chs, newChat.id, newChat)

\* The body of the update callback for a chat that is in the map;
\* updated is updateFn(chat.queries).
UpdateChatQueries(chs, chatId, updated, syncTotalCount) ==
    LET chat == chs[chatId]
        uniqueQueries == UniqueQueries(updated)
        updatedQueries == IF Len(uniqueQueries) # Len(updated)
                          THEN uniqueQueries ELSE updated
        newChat == [chat EXCEPT
                      !.queries = updatedQueries,
                      !.totalQueries = chat.totalQueries +
                          TotalChange(Len(chat.queries), Len(updatedQueries),
                                      syncTotalCount)]
    IN MapSet(chs, newChat.id, newChat)

(***************************************************************************)
(* The backend and the browser's localStorage, seen through ChatbotApi.    *)
(* The session is authenticated, so every ChatbotApi method first makes    *)
(* its HTTP call.  getChats, getChatQueries, createChat and deleteChat     *)
(* catch a failure of that call and fall back to localStorage; they reject *)
(* only when the fallback itself throws.  sendQuery re-throws the failure. *)
(***************************************************************************)
\* The statuses a response can carry: OK, 401, another 4xx, a 5xx.
Statuses == {200, 401, 403, 500}

\* firstValueFrom(this.http.get/post/delete(...)) resolves for an OK status;
\* HttpClient turns every other status into an HttpErrorResponse, which the
\* ChatbotApi method catches.
HttpClientOk(status) == status = 200

\* Authorization headers: none, the caller's own, a bearer token.
NoHeader == [kind |-> "none", token |-> 0]
CallerHeader == [kind |-> "caller", token |-> 0]
Bearer(token) == [kind |-> "bearer", token |-> token]

\* authInterceptor: the bearer header is set when an access token is stored
\* and the request has no Authorization header already.
AuthInterceptor(token, hasAuthorization) ==
    IF hasAuthorization THEN CallerHeader
    ELSE IF token # 0 THEN Bearer(token)
    ELSE NoHeader

QueryIds == <<"q1", "q2", "q3", "q4", "q5", "q6", "q7", "q8">>
InitialQueries == 2      \* queries chat c1 holds on the server at the start

RawQuery(n, message) ==
    [id |-> QueryIds[n], message |-> message, response |-> "resp"]

\* GET /chats/ : every chat, without its queries.
SrvChatList ==
    [c \in DOMAIN srvChats |->
        MapChat([id |-> c, total_queries |-> Len(srvChats[c]),
                 queries |-> <<>>])]

\* GET /chats/{id}/queries?page=N : the N-th slice of the chat's queries.
SrvPage(c, page) ==
    IF c \notin DOMAIN srvChats THEN <<>>
    ELSE LET qs == srvChats[c]
             first == (page - 1) * PageSize + 1
             last == IF page * PageSize < Len(qs) THEN page * PageSize
                     ELSE Len(qs)
         IN IF first > Len(qs) THEN <<>> ELSE SubSeq(qs, first, last)

\* getChats' fallback: the chats of localStorage nexus-chats, stored with
\* total_queries 1 and no queries.
LocalChatList ==
    [c \in DOMAIN localChats |->
        MapChat([id |-> c, total_queries |-> 1, queries |-> <<>>])]

\* getChatQueries' fallback: the stored user/assistant message pairs of the
\* chat as queries with id `${chatId}-${i}`, sliced by page.  A local chat
\* holds the one pair createChat stored.
LocalPage(c, page) ==
    IF c \in DOMAIN localChats /\ page = 1
    THEN <<[id |-> "l1-0", message |-> localChats[c], response |-> "resp"]>>
    ELSE <<>>

\* What ChatbotApi.getChats resolves with.
GetChats(httpOk) == IF httpOk THEN SrvChatList ELSE LocalChatList

\* What ChatbotApi.getChatQueries resolves with.
GetChatQueries(httpOk, c, page) ==
    MapQueries(IF httpOk THEN SrvPage(c, page) ELSE LocalPage(c, page))

(***************************************************************************)
(* Calls in flight.  A call record is the closure of a suspended async     *)
(* method: its arguments and locals, and the Authorization header its      *)
(* request went out with (ChatbotApi sets none itself).  Three fields are  *)
(* bookkeeping for the properties and are read by no action: before is the *)
(* chat's query list when sendQuery was called; alone turns FALSE when     *)
(* another operation starts on the call's chat or writes it while the call *)
(* is suspended, and is FALSE from the start when another call on that     *)
(* chat is outstanding; clean turns FALSE when an abort, a delete or a     *)
(* replacement of the chat (a refresh or a loadChats merge) writes it.     *)
(***************************************************************************)
Call(op, chat, message, page) ==
    [op |-> op, chat |-> chat, message |-> message, page |-> page,
     agents |-> FALSE, header |-> AuthInterceptor(accessToken, FALSE),
     before |-> <<>>, alone |-> TRUE, clean |-> TRUE]

InFlight == DOMAIN calls

CanStart == nCalls < MaxCalls /\ Cardinality(InFlight) < MaxInFlight

\* The free slot a new call takes.
FreeSlot == CHOOSE k \in 1..MaxInFlight : k \notin InFlight

StartCall(c) == MapSet(calls, FreeSlot, c)

EndCall(k) == MapDelete(calls, k)

\* Another operation started on, or wrote, the chats in touched: the calls
\* on them are no longer alone.
Touch(cs, touched) ==
    [k \in DOMAIN cs |->
        IF cs[k].chat \in touched THEN [cs[k] EXCEPT !.alone = FALSE]
        ELSE cs[k]]

\* An abort, a delete or a replacement wrote the chats in touched.
Disturb(cs, touched) ==
    [k \in DOMAIN cs |->
        IF cs[k].chat \in touched
        THEN [cs[k] EXCEPT !.alone = FALSE, !.clean = FALSE]
        ELSE cs[k]]

Op(name, chat, outcome) ==
    [name |-> name, chat |-> chat, outcome |-> outcome]

(***************************************************************************)
(* Initial state: the services as constructed, the backend with two chats. *)
(***************************************************************************)
EngineInit ==
    /\ chats = EmptyMap
    /\ chatsState = "null"
    /\ chatsPages = EmptyMap
    /\ tempChat = NoChat
    /\ lastUsedChat = ""
    /\ calls = EmptyMap
    /\ nCalls = 0
    /\ lastOp = Op("init", "", "ok")
    /\ srvChats = [c \in ChatIds |->
                      IF c = "c1"
                      THEN [i \in 1..InitialQueries |-> RawQuery(i, "m1")]
                      ELSE <<>>]
    /\ srvNext = InitialQueries
    /\ localChats = EmptyMap
    /\ abandoned = FALSE
    /\ requested = [c \in AllChatIds |-> <<>>]

(***************************************************************************)
(* ChatbotService.sendQuery                                                *)
(***************************************************************************)
\* sendQuery up to its await.  For a chat that is not in the map
\* _updateChatQueries dereferences undefined: the TypeError is raised before
\* the try block, after _lastUsedChat was set.
SendQuery(chatId, message) ==
    /\ CanStart
    /\ nCalls' = nCalls + 1
    /\ lastUsedChat' = chatId
    /\ IF chatId \in DOMAIN chats
       THEN /\ chats' = UpdateChatQueries(chats, chatId,
                            Push(chats[chatId].queries,
                                 CreateDummyQuery(message)), TRUE)
            /\ calls' = MapSet(Touch(calls, {chatId}), FreeSlot,
                               [Call("sendQuery", chatId, message, 0)
                                   EXCEPT !.before = chats[chatId].queries,
                                          !.alone = \A k \in InFlight :
                                                calls[k].chat # chatId])
            /\ lastOp' = Op("sendQuery", chatId, "pending")
       ELSE /\ UNCHANGED <<chats, calls>>
            /\ lastOp' = Op("sendQuery", chatId, "TypeError")
    /\ UNCHANGED <<authVars, requested, localChats, abandoned, chatsState, chatsPages, tempChat, srvChats, srvNext>>

\* The send call resolves with the query the backend created.  When the
\* chat has left the map the update throws inside the try block, the catch
\* block runs and its own update throws again.
SendQueryResolve(k) ==
    /\ k \in InFlight
    /\ calls[k].op = "sendQuery"
    /\ calls[k].chat \in DOMAIN srvChats
    /\ srvNext < InitialQueries + MaxNewQueries
    /\ LET chatId == calls[k].chat
           raw == RawQuery(srvNext + 1, calls[k].message)
           query == MapQuery(raw)
       IN /\ srvNext' = srvNext + 1
          /\ srvChats' = [srvChats EXCEPT ![chatId] = Append(@, raw)]
          /\ lastUsedChat' = ""
          /\ IF chatId \in DOMAIN chats
             THEN /\ chats' = UpdateChatQueries(chats, chatId,
                                  Push(Pop(chats[chatId].queries), query),
                                  TRUE)
                  /\ lastOp' = Op("sendQueryResolve", chatId, "ok")
             ELSE /\ UNCHANGED chats
                  /\ lastOp' = Op("sendQueryResolve", chatId, "TypeError")
    /\ calls' = Touch(EndCall(k), {calls[k].chat})
    /\ UNCHANGED <<authVars, requested, localChats, abandoned, chatsState, chatsPages, tempChat, nCalls>>

\* The send call is rejected: the catch block.
SendQueryReject(k) ==
    /\ k \in InFlight
    /\ calls[k].op = "sendQuery"
    /\ \E error \in Errors :
         LET chatId == calls[k].chat
             failedQuery == SendFailedQuery(CreateDummyQuery(calls[k].message),
                                            calls[k].message, error)
         IN /\ lastUsedChat' = ""
            /\ IF chatId \in DOMAIN chats
               THEN /\ chats' = UpdateChatQueries(chats, chatId,
                                    Push(Pop(chats[chatId].queries),
                                         failedQuery), TRUE)
                    /\ lastOp' = Op("sendQueryReject", chatId, "rethrown")
               ELSE /\ UNCHANGED chats
                    /\ lastOp' = Op("sendQueryReject", chatId, "TypeError")
    /\ calls' = Touch(EndCall(k), {calls[k].chat})
    /\ UNCHANGED <<authVars, requested, localChats, abandoned, chatsState, chatsPages, tempChat, nCalls, srvChats, srvNext>>

(***************************************************************************)
(* ChatbotService.abortLastQuery.  ChatbotApi.abortLastQuery only logs:    *)
(* the request stays outstanding and its response still arrives.           *)
(***************************************************************************)
AbortLastQuery ==
    /\ nCalls < MaxCalls
    /\ nCalls' = nCalls + 1
    /\ tempChat' = NoChat
    /\ IF lastUsedChat = ""
       THEN /\ UNCHANGED <<chats, lastUsedChat>>
            /\ lastOp' = Op("abortLastQuery", "", "ok")
       ELSE IF lastUsedChat \in DOMAIN chats
       THEN /\ chats' = UpdateChatQueries(chats, lastUsedChat,
                            Pop(chats[lastUsedChat].queries), TRUE)
            /\ lastUsedChat' = ""
            /\ lastOp' = Op("abortLastQuery", lastUsedChat, "ok")
       ELSE /\ UNCHANGED <<chats, lastUsedChat>>
            /\ lastOp' = Op("abortLastQuery", lastUsedChat, "TypeError")
    /\ calls' = Disturb(calls, {lastUsedChat, "temp"})
    /\ abandoned' = (abandoned \/ tempChat # NoChat)
    /\ UNCHANGED <<authVars, requested, localChats, chatsState, chatsPages, srvChats, srvNext>>

(***************************************************************************)
(* ChatbotService.loadChatQueries and initializeChatPage                   *)
(***************************************************************************)
\* this._chatsPages().get(chatId) || 1
CurrentPage(chatId) ==
    IF chatId \in DOMAIN chatsPages /\ chatsPages[chatId] # 0
    THEN chatsPages[chatId] ELSE 1

\* LoadChatQueries with the cursor stored as it was read.
LoadChatQueriesNoAdvance(chatId) ==
    /\ CanStart
    /\ nCalls' = nCalls + 1
    /\ chatsPages' = MapSet(chatsPages, chatId, CurrentPage(chatId))
    /\ calls' = MapSet(Touch(calls, {chatId}), FreeSlot,
                       Call("loadChatQueries", chatId, "",
                            CurrentPage(chatId)))
    /\ lastOp' = Op("loadChatQueries", chatId, "pending")
    /\ requested' = [requested EXCEPT ![chatId] =
                         Append(@, CurrentPage(chatId))]
    /\ UNCHANGED <<authVars, localChats, abandoned, chats, chatsState, tempChat, lastUsedChat, srvChats,
                   srvNext>>

\* loadChatQueries up to its await: the page is read and the cursor advanced
\* before the request is sent.
LoadChatQueries(chatId) ==
    /\ CanStart
    /\ nCalls' = nCalls + 1
    /\ chatsPages' = MapSet(chatsPages, chatId, CurrentPage(chatId) + 1)
    /\ calls' = MapSet(Touch(calls, {chatId}), FreeSlot,
                       Call("loadChatQueries", chatId, "",
                            CurrentPage(chatId)))
    /\ lastOp' = Op("loadChatQueries", chatId, "pending")
    /\ requested' = [requested EXCEPT ![chatId] =
                         Append(@, CurrentPage(chatId))]
    /\ UNCHANGED <<authVars, localChats, abandoned, chats, chatsState, tempChat, lastUsedChat, srvChats,
                   srvNext>>

\* LoadChatQueriesResolve with the page put in the place of the list.
LoadChatQueriesResolveReplace(k, httpOk) ==
    /\ k \in InFlight
    /\ calls[k].op = "loadChatQueries"
    /\ LET chatId == calls[k].chat
           queries == GetChatQueries(httpOk, chatId, calls[k].page)
       IN IF chatId \in DOMAIN chats
          THEN /\ chats' = UpdateChatQueries(chats, chatId,
                               queries, FALSE)
               /\ lastOp' = Op("loadChatQueriesResolve", chatId, "ok")
          ELSE /\ UNCHANGED chats
               /\ lastOp' = Op("loadChatQueriesResolve", chatId, "TypeError")
    /\ calls' = Touch(EndCall(k), {calls[k].chat})
    /\ UNCHANGED <<authVars, requested, localChats, abandoned, chatsState, chatsPages, tempChat, lastUsedChat, nCalls,
                   srvChats, srvNext>>

\* getChatQueries resolved, with the server's page (httpOk) or with the
\* fallback's.
LoadChatQueriesResolve(k, httpOk) ==
    /\ k \in InFlight
    /\ calls[k].op = "loadChatQueries"
    /\ LET chatId == calls[k].chat
           queries == GetChatQueries(httpOk, chatId, calls[k].page)
       IN IF chatId \in DOMAIN chats
          THEN /\ chats' = UpdateChatQueries(chats, chatId,
                               chats[chatId].queries \o queries, FALSE)
               /\ lastOp' = Op("loadChatQueriesResolve", chatId, "ok")
          ELSE /\ UNCHANGED chats
               /\ lastOp' = Op("loadChatQueriesResolve", chatId, "TypeError")
    /\ calls' = Touch(EndCall(k), {calls[k].chat})
    /\ UNCHANGED <<authVars, requested, localChats, abandoned, chatsState, chatsPages, tempChat, lastUsedChat, nCalls,
                   srvChats, srvNext>>

LoadChatQueriesReject(k) ==
    /\ k \in InFlight
    /\ calls[k].op = "loadChatQueries"
    /\ calls' = EndCall(k)
    /\ lastOp' = Op("loadChatQueriesReject", calls[k].chat, "rethrown")
    /\ UNCHANGED <<authVars, requested, localChats, abandoned, chats, chatsState, chatsPages, tempChat, lastUsedChat,
                   nCalls, srvChats, srvNext>>

InitializeChatPage(chatId) ==
    /\ nCalls < MaxCalls
    /\ nCalls' = nCalls + 1
    /\ chatsPages' = MapSet(chatsPages, chatId, 1)
    /\ lastOp' = Op("initializeChatPage", chatId, "ok")
    /\ requested' = [requested EXCEPT ![chatId] = <<>>]
    /\ UNCHANGED <<authVars, localChats, abandoned, chats, chatsState, tempChat, lastUsedChat, calls, srvChats,
                   srvNext>>

(***************************************************************************)
(* ChatbotService.loadChats and refreshChats                               *)
(***************************************************************************)
LoadChats ==
    /\ nCalls < MaxCalls
    /\ nCalls' = nCalls + 1
    /\ IF chatsState = "loading"
       THEN /\ UNCHANGED <<chatsState, calls>>
            /\ lastOp' = Op("loadChats", "", "skipped")
       ELSE /\ Cardinality(InFlight) < MaxInFlight
            /\ chatsState' = "loading"
            /\ calls' = StartCall(Call("loadChats", "", "", 0))
            /\ lastOp' = Op("loadChats", "", "pending")
    /\ UNCHANGED <<authVars, requested, localChats, abandoned, chats, chatsPages, tempChat, lastUsedChat, srvChats,
                   srvNext>>

\* getChats resolved, with the server's list (httpOk) or with the
\* fallback's.
LoadChatsResolve(k, httpOk) ==
    /\ k \in InFlight
    /\ calls[k].op = "loadChats"
    /\ chats' = MapConcat(chats, GetChats(httpOk))
    /\ chatsState' = "loaded"
    /\ calls' = Disturb(EndCall(k), DOMAIN GetChats(httpOk))
    /\ lastOp' = Op("loadChatsResolve", "", "ok")
    /\ UNCHANGED <<authVars, requested, localChats, abandoned, chatsPages, tempChat, lastUsedChat, nCalls, srvChats,
                   srvNext>>

LoadChatsReject(k) ==
    /\ k \in InFlight
    /\ calls[k].op = "loadChats"
    /\ chatsState' = "null"
    /\ calls' = EndCall(k)
    /\ lastOp' = Op("loadChatsReject", "", "rethrown")
    /\ UNCHANGED <<authVars, requested, localChats, abandoned, chats, chatsPages, tempChat, lastUsedChat, nCalls,
                   srvChats, srvNext>>

RefreshChats ==
    /\ CanStart
    /\ nCalls' = nCalls + 1
    /\ chatsState' = "loading"
    /\ calls' = StartCall(Call("refreshChats", "", "", 0))
    /\ lastOp' = Op("refreshChats", "", "pending")
    /\ UNCHANGED <<authVars, requested, localChats, abandoned, chats, chatsPages, tempChat, lastUsedChat, srvChats,
                   srvNext>>

RefreshChatsResolve(k, httpOk) ==
    /\ k \in InFlight
    /\ calls[k].op = "refreshChats"
    /\ chats' = GetChats(httpOk)
    /\ chatsState' = "loaded"
    /\ calls' = Disturb(EndCall(k), AllChatIds)
    /\ lastOp' = Op("refreshChatsResolve", "", "ok")
    /\ UNCHANGED <<authVars, requested, localChats, abandoned, chatsPages, tempChat, lastUsedChat, nCalls, srvChats,
                   srvNext>>

RefreshChatsReject(k) ==
    /\ k \in InFlight
    /\ calls[k].op = "refreshChats"
    /\ chatsState' = "null"
    /\ calls' = EndCall(k)
    /\ lastOp' = Op("refreshChatsReject", "", "rethrown")
    /\ UNCHANGED <<authVars, requested, localChats, abandoned, chats, chatsPages, tempChat, lastUsedChat, nCalls,
                   srvChats, srvNext>>

(***************************************************************************)
(* ChatbotService.createChat                                               *)
(***************************************************************************)
\* createChat up to its await; agents tells whether selectedAgents holds an
\* agent.
CreateChat(message, agents) ==
    /\ CanStart
    /\ nCalls' = nCalls + 1
    /\ tempChat' = TempChatOf(CreateDummyQuery(message))
    /\ abandoned' = FALSE
    /\ calls' = MapSet(Touch(calls, {"temp"}), FreeSlot,
                       [Call("createChat", "temp", message, 0)
                           EXCEPT !.agents = agents,
                                  !.alone = \A k \in InFlight :
                                                calls[k].chat # "temp"])
    /\ lastOp' = Op("createChat", "temp", "pending")
    /\ UNCHANGED <<authVars, requested, localChats, chats, chatsState, chatsPages,
                   lastUsedChat, srvChats, srvNext>>

\* CreateChatSuccess with the temp chat left in place.
CreateChatSuccessKeepTemp(k, chat) ==
    /\ tempChat' = tempChat
    /\ chats' = MapSet(chats, chat.id, chat)
    /\ chatsPages' = MapSet(chatsPages, chat.id, 1)
    /\ requested' = [requested EXCEPT ![chat.id] = <<>>]
    /\ calls' = Touch(EndCall(k), {chat.id, "temp"})
    /\ lastOp' = Op("createChatResolve", chat.id, "ok")

\* createChat's success branch for the chat ChatbotApi.createChat returned.
CreateChatSuccess(k, chat) ==
    /\ tempChat' = NoChat
    /\ chats' = MapSet(chats, chat.id, chat)
    /\ chatsPages' = MapSet(chatsPages, chat.id, 1)
    /\ requested' = [requested EXCEPT ![chat.id] = <<>>]
    /\ calls' = Touch(EndCall(k), {chat.id, "temp"})
    /\ lastOp' = Op("createChatResolve", chat.id, "ok")

\* The POST returned a chat_id and GET /chats/{id} returned the chat, with
\* or without its first query.
CreateChatResolve(k) ==
    /\ k \in InFlight
    /\ calls[k].op = "createChat"
    /\ NewChatId \notin DOMAIN srvChats
    /\ srvNext < InitialQueries + MaxNewQueries
    /\ \E withItems \in BOOLEAN :
         LET raw == RawQuery(srvNext + 1, calls[k].message)
             chat == MapChat([id |-> NewChatId, total_queries |-> 1,
                              queries |-> IF withItems THEN <<raw>>
                                          ELSE <<>>])
         IN /\ srvNext' = srvNext + 1
            /\ srvChats' = MapSet(srvChats, NewChatId, <<raw>>)
            /\ CreateChatSuccess(k, chat)
    /\ UNCHANGED <<authVars, localChats, abandoned, chatsState, lastUsedChat,
                   nCalls>>

\* The POST failed, an agent is selected and the fallback's own POST was
\* answered: ChatbotApi.createChat stores a chat under a local id and
\* returns it.  The backend filed the query under an id of its own.
CreateChatResolveLocal(k) ==
    /\ k \in InFlight
    /\ calls[k].op = "createChat"
    /\ calls[k].agents
    /\ LocalChatId \notin DOMAIN localChats
    /\ NewChatId \notin DOMAIN srvChats
    /\ srvNext < InitialQueries + MaxNewQueries
    /\ srvNext' = srvNext + 1
    /\ srvChats' = MapSet(srvChats, NewChatId,
                          <<RawQuery(srvNext + 1, calls[k].message)>>)
    /\ localChats' = MapSet(localChats, LocalChatId, calls[k].message)
    /\ CreateChatSuccess(k, MapChat([id |-> LocalChatId, total_queries |-> 1,
                                     queries |-> <<>>]))
    /\ UNCHANGED <<authVars, abandoned, chatsState, lastUsedChat, nCalls>>

\* The ways ChatbotApi.createChat resolves with undefined: the POST's answer
\* has no chat_id; it has one but GET /chats/{id} failed; the POST failed
\* and so did the fallback's POST (an agent being selected).
UndefinedCauses == {"noChatId", "detailsFailed", "httpFailed"}

\* ChatbotApi.createChat resolved with undefined: createChat clears the temp
\* chat and awaits refreshChats().
CreateChatResolveUndefined(k, cause) ==
    /\ k \in InFlight
    /\ calls[k].op = "createChat"
    /\ cause = "httpFailed" => calls[k].agents
    /\ IF cause = "detailsFailed"
       THEN /\ NewChatId \notin DOMAIN srvChats
            /\ srvNext < InitialQueries + MaxNewQueries
            /\ srvNext' = srvNext + 1
            /\ srvChats' = MapSet(srvChats, NewChatId,
                   <<RawQuery(srvNext + 1, calls[k].message)>>)
       ELSE UNCHANGED <<srvChats, srvNext>>
    /\ lastOp' = Op("createChatResolveUndefined", "temp", "pending")
    /\ tempChat' = NoChat
    /\ chatsState' = "loading"
    /\ calls' = [Touch(calls, {"temp"}) EXCEPT ![k].op = "createChatRefresh"]
    /\ UNCHANGED <<authVars, requested, localChats, abandoned, chats, chatsPages,
                   lastUsedChat, nCalls>>

\* CreateChatRefreshResolve with the fetched list merged into the map.
CreateChatRefreshResolveMerge(k, httpOk) ==
    /\ k \in InFlight
    /\ calls[k].op = "createChatRefresh"
    /\ chats' = MapConcat(chats, GetChats(httpOk))
    /\ chatsState' = "loaded"
    /\ calls' = Disturb(EndCall(k), AllChatIds)
    /\ lastOp' = Op("createChatRefreshResolve", "temp", "ok")
    /\ UNCHANGED <<authVars, requested, localChats, abandoned, chatsPages, tempChat, lastUsedChat, nCalls, srvChats,
                   srvNext>>

\* The refreshChats() createChat awaits resolved: the map is replaced by the
\* fetched list and createChat resolves with undefined.
CreateChatRefreshResolve(k, httpOk) ==
    /\ k \in InFlight
    /\ calls[k].op = "createChatRefresh"
    /\ chats' = GetChats(httpOk)
    /\ chatsState' = "loaded"
    /\ calls' = Disturb(EndCall(k), AllChatIds)
    /\ lastOp' = Op("createChatRefreshResolve", "temp", "ok")
    /\ UNCHANGED <<authVars, requested, localChats, abandoned, chatsPages, tempChat, lastUsedChat, nCalls, srvChats,
                   srvNext>>

\* createChat's catch block.
CreateChatCatch(k, error) ==
    /\ tempChat' = TempChatOf(CreateFailedQuery(
                        CreateDummyQuery(calls[k].message),
                        calls[k].message, error))
    /\ calls' = Touch(EndCall(k), {"temp"})

\* getChats threw in its fallback: the error refreshChats re-raises lands in
\* createChat's own catch block.
CreateChatRefreshReject(k) ==
    /\ k \in InFlight
    /\ calls[k].op = "createChatRefresh"
    /\ chatsState' = "null"
    /\ CreateChatCatch(k, StorageError)
    /\ lastOp' = Op("createChatRefreshReject", "temp", "rethrown")
    /\ UNCHANGED <<authVars, requested, localChats, abandoned, chats, chatsPages,
                   lastUsedChat, nCalls, srvChats, srvNext>>

\* The POST failed and no agent is selected: the fallback throws
\* Error('No agent selected...').
CreateChatReject(k) ==
    /\ k \in InFlight
    /\ calls[k].op = "createChat"
    /\ ~calls[k].agents
    /\ CreateChatCatch(k, NoAgentError)
    /\ lastOp' = Op("createChatReject", "temp", "rethrown")
    /\ UNCHANGED <<authVars, requested, localChats, abandoned, chats, chatsState,
                   chatsPages, lastUsedChat, nCalls, srvChats, srvNext>>

(***************************************************************************)
(* ChatbotService.deleteChat                                               *)
(***************************************************************************)
DeleteChat(chatId) ==
    /\ CanStart
    /\ nCalls' = nCalls + 1
    /\ calls' = MapSet(Touch(calls, {chatId}), FreeSlot,
                       Call("deleteChat", chatId, "", 0))
    /\ lastOp' = Op("deleteChat", chatId, "pending")
    /\ UNCHANGED <<authVars, requested, localChats, abandoned, chats, chatsState, chatsPages, tempChat, lastUsedChat,
                   srvChats, srvNext>>

\* ChatbotApi.deleteChat resolved: the DELETE succeeded, or it failed and
\* the fallback removed the chat from localStorage; the then-callback runs
\* in both cases.
DeleteChatResolve(k, httpOk) ==
    /\ k \in InFlight
    /\ calls[k].op = "deleteChat"
    /\ srvChats' = IF httpOk THEN MapDelete(srvChats, calls[k].chat)
                   ELSE srvChats
    /\ localChats' = IF httpOk THEN localChats
                     ELSE MapDelete(localChats, calls[k].chat)
    /\ lastOp' = Op("deleteChatResolve", calls[k].chat, "ok")
    /\ chats' = MapDelete(chats, calls[k].chat)
    /\ calls' = Disturb(EndCall(k), {calls[k].chat})
    /\ UNCHANGED <<authVars, requested, abandoned, chatsState, chatsPages, tempChat,
                   lastUsedChat, nCalls, srvNext>>

\* The DELETE failed and the fallback threw.
DeleteChatReject(k) ==
    /\ k \in InFlight
    /\ calls[k].op = "deleteChat"
    /\ calls' = EndCall(k)
    /\ lastOp' = Op("deleteChatReject", calls[k].chat, "rethrown")
    /\ UNCHANGED <<authVars, requested, localChats, abandoned, chats, chatsState, chatsPages, tempChat, lastUsedChat,
                   nCalls, srvChats, srvNext>>

(***************************************************************************)
(* The engine's next-state relation.                                       *)
(***************************************************************************)
CallIds == 1..MaxInFlight

\* The chats an operation can be aimed at.
Targets == ChatIds \cup DOMAIN chats

EngineNext ==
    \/ \E c \in Targets, m \in Messages : SendQuery(c, m)
    \/ \E k \in CallIds : SendQueryResolve(k)
    \/ \E k \in CallIds : SendQueryReject(k)
    \/ AbortLastQuery
    \/ \E c \in Targets : LoadChatQueries(c)
    \/ \E k \in CallIds, status \in Statuses :
          LoadChatQueriesResolve(k, HttpClientOk(status))
    \/ \E k \in CallIds : LoadChatQueriesReject(k)
    \/ \E c \in Targets : InitializeChatPage(c)
    \/ LoadChats
    \/ \E k \in CallIds, status \in Statuses :
          LoadChatsResolve(k, HttpClientOk(status))
    \/ \E k \in CallIds : LoadChatsReject(k)
    \/ RefreshChats
    \/ \E k \in CallIds, status \in Statuses :
          RefreshChatsResolve(k, HttpClientOk(status))
    \/ \E k \in CallIds : RefreshChatsReject(k)
    \/ \E m \in Messages, agents \in BOOLEAN : CreateChat(m, agents)
    \/ \E k \in CallIds : CreateChatResolve(k)
    \/ \E k \in CallIds : CreateChatResolveLocal(k)
    \/ \E k \in CallIds, cause \in UndefinedCauses :
          CreateChatResolveUndefined(k, cause)
    \/ \E k \in CallIds, status \in Statuses :
          CreateChatRefreshResolve(k, HttpClientOk(status))
    \/ \E k \in CallIds : CreateChatRefreshReject(k)
    \/ \E k \in CallIds : CreateChatReject(k)
    \/ \E c \in Targets : DeleteChat(c)
    \/ \E k \in CallIds, status \in Statuses :
          DeleteChatResolve(k, HttpClientOk(status))
    \/ \E k \in CallIds : DeleteChatReject(k)

(***************************************************************************)
(* AuthService: the token store, logout, refreshToken, authenticatedFetch. *)
(* Tokens are numbered in the order the backend issues them; 0 stands for  *)
(* an absent localStorage item.                                            *)
(***************************************************************************)
\* getAuthHeaders(): a bearer header when an access token is stored.
GetAuthHeaders(token) == IF token # 0 THEN Bearer(token) ELSE NoHeader

\* {...this.getAuthHeaders(), ...options.headers}: the caller's own
\* Authorization header, when given, overrides the bearer header.
RequestHeaders(token, callerAuth) ==
    IF callerAuth THEN CallerHeader ELSE GetAuthHeaders(token)

AuthCall(callerAuth, header) ==
    [pc |-> "fetch", callerAuth |-> callerAuth, sent |-> 1, refreshes |-> 0,
     firstStatus |-> 0, refreshOutcome |-> "none", newPair |-> 0,
     retryHeader |-> NoHeader, firstHeader |-> header,
     result |-> "none", status |-> 0]

\* logout(): with a stored refresh token the POST /auth/logout is awaited
\* before anything is cleared; without one the local state is cleared at
\* once.  The result is <<accessToken, refreshTok, isAuthenticated, logouts>>.
LogoutStart ==
    IF refreshTok # 0
    THEN <<accessToken, refreshTok, isAuthenticated, logouts + 1>>
    ELSE <<0, 0, FALSE, logouts>>

\* authenticatedFetch up to its first await.
AuthenticatedFetch(callerAuth) ==
    /\ Len(authCalls) < MaxAuthCalls
    /\ authCalls' = Append(authCalls,
                           AuthCall(callerAuth,
                                    RequestHeaders(accessToken, callerAuth)))
    /\ UNCHANGED <<engineVars, accessToken, refreshTok, isAuthenticated, logouts, issued>>

\* FirstResponse with the refresh started on every error status.
FirstResponseRefreshOnError(k, status) ==
    /\ authCalls[k].pc = "fetch"
    /\ IF status >= 400 /\ refreshTok # 0
       THEN authCalls' = [authCalls EXCEPT ![k].pc = "refresh",
                                           ![k].firstStatus = status,
                                           ![k].refreshes = @ + 1]
       ELSE authCalls' = [authCalls EXCEPT ![k].pc = "done",
                                           ![k].firstStatus = status,
                                           ![k].result = "response",
                                           ![k].status = status]
    /\ UNCHANGED <<engineVars, accessToken, refreshTok, isAuthenticated, logouts, issued>>

\* The first response arrives.  A 401 with a stored refresh token starts
\* refreshToken(); every other response is returned as it is.
FirstResponse(k, status) ==
    /\ authCalls[k].pc = "fetch"
    /\ IF status = 401 /\ refreshTok # 0
       THEN authCalls' = [authCalls EXCEPT ![k].pc = "refresh",
                                           ![k].firstStatus = status,
                                           ![k].refreshes = @ + 1]
       ELSE authCalls' = [authCalls EXCEPT ![k].pc = "done",
                                           ![k].firstStatus = status,
                                           ![k].result = "response",
                                           ![k].status = status]
    /\ UNCHANGED <<engineVars, accessToken, refreshTok, isAuthenticated, logouts, issued>>

\* The first fetch is rejected by the transport: the error propagates.
FirstFails(k) ==
    /\ authCalls[k].pc = "fetch"
    /\ authCalls' = [authCalls EXCEPT ![k].pc = "done",
                                      ![k].result = "TransportError"]
    /\ UNCHANGED <<engineVars, accessToken, refreshTok, isAuthenticated, logouts, issued>>

\* RefreshOk with the retry sent under the headers of the first request.
RefreshOkStaleHeader(k) ==
    /\ authCalls[k].pc = "refresh"
    /\ issued < MaxTokens
    /\ issued' = issued + 1
    /\ accessToken' = issued + 1
    /\ refreshTok' = issued + 1
    /\ authCalls' = [authCalls EXCEPT
                        ![k].pc = "retry",
                        ![k].refreshOutcome = "ok",
                        ![k].newPair = issued + 1,
                        ![k].sent = @ + 1,
                        ![k].retryHeader = authCalls[k].firstHeader]
    /\ UNCHANGED <<engineVars, isAuthenticated, logouts>>

\* POST /auth/refresh answers OK: storeTokens, then the retry is sent with
\* headers rebuilt from the store.
RefreshOk(k) ==
    /\ authCalls[k].pc = "refresh"
    /\ issued < MaxTokens
    /\ issued' = issued + 1
    /\ accessToken' = issued + 1
    /\ refreshTok' = issued + 1
    /\ authCalls' = [authCalls EXCEPT
                        ![k].pc = "retry",
                        ![k].refreshOutcome = "ok",
                        ![k].newPair = issued + 1,
                        ![k].sent = @ + 1,
                        ![k].retryHeader =
                            RequestHeaders(accessToken', authCalls[k].callerAuth)]
    /\ UNCHANGED <<engineVars, isAuthenticated, logouts>>

\* CatchBlock without the call of logout().
CatchBlockNoLogout(k, outcome) ==
    /\ authCalls' = [authCalls EXCEPT
                        ![k].pc = "done",
                        ![k].refreshOutcome = outcome,
                        ![k].result = "AuthenticationFailure"]
    /\ UNCHANGED <<engineVars, accessToken, refreshTok, isAuthenticated,
                   logouts, issued>>

\* The catch block: this.logout() is started and not awaited, then
\* Error('Authentication failed') is thrown.
CatchBlock(k, outcome) ==
    /\ accessToken' = LogoutStart[1]
    /\ refreshTok' = LogoutStart[2]
    /\ isAuthenticated' = LogoutStart[3]
    /\ logouts' = LogoutStart[4]
    /\ authCalls' = [authCalls EXCEPT
                        ![k].pc = "done",
                        ![k].refreshOutcome = outcome,
                        ![k].result = "AuthenticationFailure"]
    /\ UNCHANGED <<engineVars, issued>>

\* POST /auth/refresh answers non-OK or is rejected by the transport.
RefreshFails(k) ==
    /\ authCalls[k].pc = "refresh"
    /\ CatchBlock(k, "failed")

\* The retry's response is returned whatever its status.
RetryResponse(k, status) ==
    /\ authCalls[k].pc = "retry"
    /\ authCalls' = [authCalls EXCEPT ![k].pc = "done",
                                      ![k].result = "response",
                                      ![k].status = status]
    /\ UNCHANGED <<engineVars, accessToken, refreshTok, isAuthenticated, logouts, issued>>

\* The retry is rejected by the transport, inside the same try block.
RetryFails(k) ==
    /\ authCalls[k].pc = "retry"
    /\ CatchBlock(k, "ok")

\* POST /auth/logout settles (either way): clearTokens, user and
\* _isAuthenticated reset.
LogoutSettles ==
    /\ logouts > 0
    /\ logouts' = logouts - 1
    /\ accessToken' = 0
    /\ refreshTok' = 0
    /\ isAuthenticated' = FALSE
    /\ UNCHANGED <<engineVars, authCalls, issued>>

AuthNext ==
    \/ \E callerAuth \in BOOLEAN : AuthenticatedFetch(callerAuth)
    \/ \E k \in DOMAIN authCalls, status \in Statuses : FirstResponse(k, status)
    \/ \E k \in DOMAIN authCalls : FirstFails(k)
    \/ \E k \in DOMAIN authCalls : RefreshOk(k)
    \/ \E k \in DOMAIN authCalls : RefreshFails(k)
    \/ \E k \in DOMAIN authCalls, status \in Statuses : RetryResponse(k, status)
    \/ \E k \in DOMAIN authCalls : RetryFails(k)
    \/ LogoutSettles

\* A session restored from localStorage, or none.
AuthInit ==
    /\ \E session \in BOOLEAN :
         /\ accessToken = IF session THEN 1 ELSE 0
         /\ refreshTok = IF session THEN 1 ELSE 0
         /\ isAuthenticated = session
         /\ issued = IF session THEN 1 ELSE 0
    /\ authCalls = <<>>
    /\ logouts = 0

\* The session the engine runs in: logged in, one token pair issued.
AuthSession ==
    /\ accessToken = 1
    /\ refreshTok = 1
    /\ isAuthenticated = TRUE
    /\ authCalls = <<>>
    /\ logouts = 0
    /\ issued = 1

Init == EngineInit /\ AuthSession

Next == EngineNext

Spec == Init /\ [][Next]_vars

\* The authentication layer on its own.
AuthSpecInit == EngineInit /\ AuthInit

AuthSpec == AuthSpecInit /\ [][AuthNext]_vars

\* Every request the browser sends settles: the awaited POST /auth/logout
\* resolves or rejects.
FairAuthSpec == AuthSpec /\ WF_vars(LogoutSettles)

(***************************************************************************)
(* Sequential pagination: the chat list is loaded once, then               *)
(* loadChatQueries is called again and again, each call awaited, against a *)
(* backend whose chats hold any number of queries up to MaxServerQueries   *)
(* and whose requests are all answered.                                    *)
(***************************************************************************)
PagingInit ==
    /\ chats = EmptyMap
    /\ chatsState = "null"
    /\ chatsPages = EmptyMap
    /\ tempChat = NoChat
    /\ lastUsedChat = ""
    /\ calls = EmptyMap
    /\ nCalls = 0
    /\ lastOp = Op("init", "", "ok")
    /\ \E t1, t2 \in 0..MaxServerQueries :
         /\ srvChats = [c \in ChatIds |->
                           IF c = "c1" THEN [i \in 1..t1 |-> RawQuery(i, "m1")]
                           ELSE [i \in 1..t2 |-> RawQuery(t1 + i, "m1")]]
         /\ srvNext = t1 + t2
    /\ localChats = EmptyMap
    /\ abandoned = FALSE
    /\ requested = [c \in AllChatIds |-> <<>>]
    /\ AuthSession

\* await loadChats(), once, when the application starts.
AwaitedLoadChats == InFlight = {} /\ chatsState = "null" /\ LoadChats

\* await loadChatQueries(c) on a chat of the map.
AwaitedLoadChatQueries(c) ==
    InFlight = {} /\ c \in DOMAIN chats /\ LoadChatQueries(c)

PagingNext ==
    \/ AwaitedLoadChats
    \/ \E k \in CallIds : LoadChatsResolve(k, TRUE)
    \/ \E c \in Targets : AwaitedLoadChatQueries(c)
    \/ \E k \in CallIds : LoadChatQueriesResolve(k, TRUE)

PagingSpec == PagingInit /\ [][PagingNext]_vars

(***************************************************************************)
(* Properties of the engine.                                               *)
(***************************************************************************)
Ids(qs) == {qs[i].id : i \in 1..Len(qs)}

NoDuplicateIds(qs) ==
    \A i, j \in 1..Len(qs) : i # j => qs[i].id # qs[j].id

\* A pending placeholder: no server id, no response, no status.
IsPlaceholder(q) == q.id = "" /\ q.status = "null" /\ q.response = ""

\* A query counts as completed with status completed, or with a response
\* and no status (payloads that omit the status).
IsCompleted(q) ==
    q.status = "completed" \/ (q.status = "null" /\ q.response # "")

SendCalls(chatId) ==
    {k \in InFlight : calls[k].op = "sendQuery" /\ calls[k].chat = chatId}

\* Call k of sendQuery settles in this step, on a chat that is in the map
\* and that no abort, delete or refresh touched since the call began.
SettlesUndisturbed(k) ==
    /\ SendQueryResolve(k) \/ SendQueryReject(k)
    /\ calls[k].clean
    /\ calls[k].chat \in DOMAIN chats

\* No other operation was in flight on call k's chat, from the call's start
\* to this state.
Alone(k) ==
    /\ calls[k].alone
    /\ \A j \in InFlight \ {k} : calls[j].chat # calls[k].chat

\* C1 (reconciliation atomicity): when a sendQuery call on a chat of the map
\* settles, with no abort, delete or refresh of that chat in between, the
\* chat's query list has the size it had while the placeholder was pending.
C1_ReconciliationAtomicity ==
    [][\A k \in CallIds :
         SettlesUndisturbed(k) =>
            Len(chats'[calls[k].chat].queries) =
                Len(chats[calls[k].chat].queries)]_vars

\* C2 (deduplication invariant): in every reachable state no chat of the map
\* has two queries with the same id.
C2_DedupInvariant ==
    \A c \in DOMAIN chats : NoDuplicateIds(chats[c].queries)

\* Two sendQuery calls are outstanding on one chat: the second placeholder,
\* with the same empty id as the first, was filtered out.
C2_Witness ==
    /\ lastOp.name = "sendQuery"
    /\ lastOp.outcome = "pending"
    /\ Cardinality(SendCalls(lastOp.chat)) = 2
    /\ Len(chats[lastOp.chat].queries) = 1

\* C3 (send success): when sendQuery(c, m) resolves with the server's query
\* r, no other operation having been in flight on c, c's list is the list L
\* it was before the call followed by r, and r is held as completed.
C3_SendSuccess ==
    [][\A k \in CallIds :
         (SendQueryResolve(k) /\ Alone(k)
              /\ calls[k].chat \in DOMAIN chats) =>
            LET r == MapQuery(RawQuery(srvNext + 1, calls[k].message))
            IN /\ chats'[calls[k].chat].queries = Append(calls[k].before, r)
               /\ IsCompleted(r)]_vars

\* C4 (send failure): when the send call of sendQuery(c, m) is rejected, c
\* being in the map and not aborted, deleted or refreshed meanwhile, the
\* list keeps its size and its last entry is the one failed query that took
\* the placeholder's place, with the placeholder's id, the message m and an
\* errorMessage; the error is re-raised and lastUsedChat is empty.
C4_SendFailure ==
    [][\A k \in CallIds :
         (SendQueryReject(k) /\ calls[k].clean
              /\ calls[k].chat \in DOMAIN chats) =>
            LET old == chats[calls[k].chat].queries
                new == chats'[calls[k].chat].queries
            IN /\ Len(new) = Len(old)
               /\ new # <<>>
               /\ new[Len(new)].status = "failed"
               /\ new[Len(new)].id = CreateDummyQuery(calls[k].message).id
               /\ new[Len(new)].message = calls[k].message
               /\ new[Len(new)].errorMessage \notin {"", "null"}
               /\ Cardinality({i \in 1..Len(new) :
                       new[i].id = new[Len(new)].id}) = 1
               /\ lastOp'.outcome = "rethrown"
               /\ lastUsedChat' = ""]_vars

\* C5 (no coexistence): once the only outstanding sendQuery call on a chat
\* has resolved with the server's query, the chat's list holds that query
\* and no pending placeholder, whatever other handlers ran in between.
C5_NoCoexistence ==
    [][\A k \in CallIds :
         (SendQueryResolve(k) /\ calls[k].chat \in DOMAIN chats
              /\ SendCalls(calls[k].chat) = {k}) =>
            LET new == chats'[calls[k].chat].queries
            IN /\ QueryIds[srvNext + 1] \in Ids(new)
               /\ \A i \in 1..Len(new) : ~IsPlaceholder(new[i])]_vars

\* C6 (fresh pending entry): every sendQuery call on a chat of the map
\* appends one placeholder with the submitted message and an id that no
\* entry of the list has yet; the entries already there stay as they are.
C6_FreshPendingEntry ==
    [][\A c \in Targets, m \in Messages :
         (SendQuery(c, m) /\ c \in DOMAIN chats) =>
            LET old == chats[c].queries
                new == chats'[c].queries
            IN /\ Len(new) = Len(old) + 1
               /\ SubSeq(new, 1, Len(old)) = old
               /\ IsPlaceholder(new[Len(new)])
               /\ new[Len(new)].message = m
               /\ new[Len(new)].id \notin Ids(old)]_vars

(***************************************************************************)
(* Properties of the authentication layer, under AuthSpec.                 *)
(***************************************************************************)
SessionCleared == accessToken = 0 /\ refreshTok = 0 /\ ~isAuthenticated

RefreshFailed(k) ==
    k \in DOMAIN authCalls /\ authCalls[k].refreshOutcome = "failed"

\* What every authenticatedFetch call keeps to, whatever header the retry
\* carries: at most two sends and one refresh; after a successful refresh
\* one retry.
RetryOnce(c) ==
    /\ c.sent <= 2
    /\ c.refreshes <= 1
    /\ c.refreshOutcome = "ok" =>
          /\ c.firstStatus = 401
          /\ c.sent = 2
          /\ c.refreshes = 1
          /\ c.newPair # 0

\* The new pair is in the store when the retry is sent.
PairPersisted ==
    \A k \in DOMAIN authCalls :
       RefreshOk(k) => /\ accessToken' = authCalls'[k].newPair
                       /\ refreshTok' = authCalls'[k].newPair

\* The retry's response ends the call and is its result, a 401 included.
RetryIsFinal ==
    \A k \in DOMAIN authCalls, status \in Statuses :
       RetryResponse(k, status) =>
          /\ authCalls'[k].pc = "done"
          /\ authCalls'[k].result = "response"
          /\ authCalls'[k].status = status
          /\ authCalls'[k].sent = 2
          /\ authCalls'[k].refreshes = 1

\* C7 as stated (auth retry-once): after a 401 and a successful refresh the
\* new pair is persisted and the request is re-sent once, with the new
\* access token; the retry's response is final whatever its status; a call
\* sends at most twice and refreshes at most once.
C7_RetryWithNewToken ==
    /\ [](\A k \in DOMAIN authCalls :
            /\ RetryOnce(authCalls[k])
            /\ authCalls[k].refreshOutcome = "ok" =>
                  authCalls[k].retryHeader = Bearer(authCalls[k].newPair))
    /\ [][PairPersisted /\ RetryIsFinal]_vars

\* C7 as amended: the retry carries the new access token unless the caller
\* passed an Authorization header of its own, which then overrides it as it
\* did on the first request.
C7_RetryOnce ==
    /\ [](\A k \in DOMAIN authCalls :
            /\ RetryOnce(authCalls[k])
            /\ authCalls[k].refreshOutcome = "ok" =>
                  authCalls[k].retryHeader =
                      IF authCalls[k].callerAuth THEN CallerHeader
                      ELSE Bearer(authCalls[k].newPair))
    /\ [][PairPersisted /\ RetryIsFinal]_vars

\* A call whose retry, sent with the refreshed token, was answered 401 and
\* returned that response.
C7_Witness ==
    \E k \in DOMAIN authCalls :
       /\ authCalls[k].pc = "done"
       /\ authCalls[k].refreshOutcome = "ok"
       /\ authCalls[k].result = "response"
       /\ authCalls[k].status = 401
       /\ ~authCalls[k].callerAuth
       /\ authCalls[k].retryHeader = Bearer(authCalls[k].newPair)
       /\ authCalls[k].retryHeader # authCalls[k].firstHeader

\* C8 (refresh failure), under FairAuthSpec: a call whose refresh failed
\* ends in AuthenticationFailure with the request sent once, and after the
\* failure a state comes where no token is stored and the session is
\* unauthenticated.
C8_RefreshFailure ==
    /\ [](\A k \in DOMAIN authCalls :
            RefreshFailed(k) =>
               /\ authCalls[k].result = "AuthenticationFailure"
               /\ authCalls[k].sent = 1)
    /\ \A k \in 1..MaxAuthCalls :
          <>RefreshFailed(k) => <>(RefreshFailed(k) /\ SessionCleared)

\* The refresh of a restored session failed and the logout request it
\* started has settled.
C8_Witness ==
    /\ \E k \in DOMAIN authCalls :
          RefreshFailed(k) /\ authCalls[k].firstHeader = Bearer(1)
    /\ SessionCleared
    /\ logouts = 0

\* C9 (cleared before raising): in the step in which a call ends with
\* AuthenticationFailure, the token pair is gone and the session is
\* unauthenticated.
C9_ClearedBeforeRaising ==
    [][\A k \in DOMAIN authCalls :
         (authCalls[k].pc # "done" /\ authCalls'[k].pc = "done"
              /\ authCalls'[k].result = "AuthenticationFailure") =>
            SessionCleared']_vars

\* C10 (401 without refresh token): when the first response is 401 and no
\* refresh token is stored, the call ends with AuthenticationFailure, no
\* token stored and the session unauthenticated.
C10_NoRefreshToken ==
    [][\A k \in DOMAIN authCalls :
         (FirstResponse(k, 401) /\ refreshTok = 0) =>
            /\ authCalls'[k].result = "AuthenticationFailure"
            /\ SessionCleared']_vars

\* The step in which call k of authenticatedFetch returns or raises.
Ends(k) == authCalls[k].pc # "done" /\ authCalls'[k].pc = "done"

\* C11 (fails only after a failed refresh): a call ends with
\* AuthenticationFailure only if its refresh attempt failed, and a call that
\* ends without a failed refresh neither clears the token store nor starts
\* a logout.
C11_FailsOnlyAfterFailedRefresh ==
    /\ [](\A k \in DOMAIN authCalls :
            authCalls[k].result = "AuthenticationFailure" =>
               authCalls[k].refreshOutcome = "failed")
    /\ [][\A k \in DOMAIN authCalls :
            (Ends(k) /\ authCalls'[k].refreshOutcome # "failed") =>
               /\ accessToken' = accessToken
               /\ refreshTok' = refreshTok
               /\ isAuthenticated' = isAuthenticated
               /\ logouts' = logouts]_vars

\* C12 (non-401 responses pass through): a first response whose status is
\* not 401 ends the call in the same step with that response, the request
\* sent once and no refresh, and the step leaves the token store, the
\* authentication state, the pending logouts and the pairs issued by the
\* refresh endpoint as they were; such a call never sends or refreshes
\* afterwards.
C12_NonUnauthorizedAsIs ==
    /\ [][\A k \in DOMAIN authCalls, status \in Statuses \ {401} :
            FirstResponse(k, status) =>
               /\ authCalls'[k].pc = "done"
               /\ authCalls'[k].result = "response"
               /\ authCalls'[k].status = status
               /\ authCalls'[k].sent = 1
               /\ authCalls'[k].refreshes = 0
               /\ accessToken' = accessToken
               /\ refreshTok' = refreshTok
               /\ isAuthenticated' = isAuthenticated
               /\ logouts' = logouts
               /\ issued' = issued]_vars
    /\ [](\A k \in DOMAIN authCalls :
            authCalls[k].firstStatus \in Statuses \ {401} =>
               /\ authCalls[k].pc = "done"
               /\ authCalls[k].result = "response"
               /\ authCalls[k].status = authCalls[k].firstStatus
               /\ authCalls[k].sent = 1
               /\ authCalls[k].refreshes = 0
               /\ authCalls[k].refreshOutcome = "none")

\* A call answered 403 while a refresh token is stored has returned the 403.
C12_Witness ==
    \E k \in DOMAIN authCalls :
       /\ authCalls[k].firstStatus = 403
       /\ authCalls[k].result = "response"
       /\ authCalls[k].status = 403
       /\ refreshTok # 0
       /\ isAuthenticated

(***************************************************************************)
(* Properties of createChat, loadChats, deleteChat and loadChatQueries,    *)
(* under Spec.                                                             *)
(***************************************************************************)
\* The steps in which ChatbotApi.createChat settles after its POST /chats
\* failed: the fallback throws, stores a local chat, or gives up.
CreateCallFailed(k) ==
    \/ CreateChatReject(k)
    \/ CreateChatResolveLocal(k)
    \/ CreateChatResolveUndefined(k, "httpFailed")

\* The temp chat temp holds the failed query of a create call with this
\* message.
HoldsFailedQuery(temp, message) ==
    /\ temp # NoChat
    /\ Len(temp.queries) = 1
    /\ temp.queries[1].status = "failed"
    /\ temp.queries[1].id = CreateDummyQuery(message).id
    /\ temp.queries[1].message = message
    /\ temp.queries[1].errorMessage # "null"

\* C13 (create failure): when the create-chat network call fails, createChat
\* leaves the temp chat with the single failed query of the message, leaves
\* the chat map unchanged and re-raises the error.
C13_CreateFailure ==
    [][\A k \in CallIds :
         CreateCallFailed(k) =>
            /\ HoldsFailedQuery(tempChat', calls[k].message)
            /\ chats' = chats
            /\ lastOp'.outcome = "rethrown"]_vars

\* The step in which createChat's success branch runs for call k.
CreateReturnsChat(k) == CreateChatResolve(k) \/ CreateChatResolveLocal(k)

\* The chat a create call returned, as the backend or the fallback built it:
\* id, one query counted, and its queries given or left out.
IsReturnedChat(chat, id) ==
    /\ chat.id = id
    /\ chat.totalQueries = 1
    /\ \/ chat.queries = <<>>
       \/ id \in DOMAIN srvChats' /\ chat.queries = MapQueries(srvChats'[id])

\* What createChat's resolution with a chat leaves behind: no temp chat, the
\* returned chat in the map under its id, every other entry as it was, and
\* the chat's cursor at 1.
CreateSuccessEffect ==
    LET id == lastOp'.chat
    IN /\ tempChat' = NoChat
       /\ DOMAIN chats' = DOMAIN chats \cup {id}
       /\ IsReturnedChat(chats'[id], id)
       /\ \A c \in DOMAIN chats \ {id} : chats'[c] = chats[c]
       /\ id \in DOMAIN chatsPages'
       /\ chatsPages'[id] = 1

\* The temp chat holds exactly one pending query with this message.
HoldsPendingQuery(message) ==
    /\ tempChat # NoChat
    /\ Len(tempChat.queries) = 1
    /\ IsPlaceholder(tempChat.queries[1])
    /\ tempChat.queries[1].message = message

CreateCalls == {k \in InFlight : calls[k].op = "createChat"}

\* C14 (create success) as claimed: createChat's resolution with a chat has
\* the effect above, and while a create call is in flight the temp chat
\* holds one pending query with its message.
C14_CreateSuccess ==
    /\ [][\A k \in CallIds : CreateReturnsChat(k) => CreateSuccessEffect]_vars
    /\ [](\A k \in CreateCalls : HoldsPendingQuery(calls[k].message))

\* C14 as amended: the temp chat holds the call's pending query for as long
\* as no abortLastQuery ran and no other createChat call was outstanding
\* since the call was made.
C14_CreateSuccessUndisturbed ==
    /\ [][\A k \in CallIds : CreateReturnsChat(k) => CreateSuccessEffect]_vars
    /\ [](\A k \in CreateCalls :
            calls[k].alone => HoldsPendingQuery(calls[k].message))

\* createChat has resolved with the backend's chat into a map that held
\* other chats, while its create call was in flight undisturbed.
C14_Witness ==
    /\ lastOp.name = "createChatResolve"
    /\ lastOp.chat = NewChatId
    /\ tempChat = NoChat
    /\ ChatIds \subseteq DOMAIN chats
    /\ NewChatId \in DOMAIN chats
    /\ chatsPages[NewChatId] = 1

\* Call k of createChat learns that the create call gave no chat and goes on
\* to await refreshChats().
TurnsToRefresh(k) ==
    /\ k \in CreateCalls
    /\ k \in DOMAIN calls'
    /\ calls'[k].op = "createChatRefresh"

\* Call k of createChat resolves after the refresh it awaited.
ResolvesAfterRefresh(k) ==
    /\ k \in InFlight
    /\ calls[k].op = "createChatRefresh"
    /\ k \notin DOMAIN calls'
    /\ lastOp'.name = "createChatRefreshResolve"

\* C15 (degraded success): when the create call resolves without a chat,
\* createChat clears the temp chat, inserts nothing into the map and starts
\* a refresh; it resolves only when that refresh has replaced the map by
\* the fetched list.
C15_DegradedSuccess ==
    /\ [][\A k \in CallIds :
            /\ TurnsToRefresh(k) =>
                  /\ tempChat' = NoChat
                  /\ chats' = chats
                  /\ chatsState' = "loading"
            /\ ResolvesAfterRefresh(k) =>
                  /\ chats' \in {SrvChatList, LocalChatList}
                  /\ chatsState' = "loaded"]_vars
    /\ [][\A k \in CreateCalls :
            (k \notin DOMAIN calls' /\ lastOp'.outcome = "ok") =>
               CreateReturnsChat(k)]_vars

\* A create call whose chat details could not be fetched has resolved after
\* the refresh replaced a map that held a local chat by the server's list.
C15_Witness ==
    /\ lastOp.name = "createChatRefreshResolve"
    /\ tempChat = NoChat
    /\ chats = SrvChatList
    /\ NewChatId \in DOMAIN chats
    /\ LocalChatId \in DOMAIN localChats

\* The chats of the map with the number of entries each holds.
EntryCounts(chs) == [c \in DOMAIN chs |-> Len(chs[c].queries)]

\* C16 (abort clears the temp chat): abortLastQuery leaves no temp chat and
\* adds no entry to any chat of the map, and from an abort that discarded a
\* temp chat until the next createChat call the temp chat stays absent,
\* whatever the abandoned create request completes with.
C16_AbortClearsTempChat ==
    /\ [][AbortLastQuery =>
            /\ tempChat' = NoChat
            /\ DOMAIN chats' = DOMAIN chats
            /\ \A c \in DOMAIN chats :
                  EntryCounts(chats')[c] <= EntryCounts(chats)[c]]_vars
    /\ [](abandoned => tempChat = NoChat)

\* The chat-list fetches started by loadChats that are outstanding.
LoadChatsFetches == {k \in InFlight : calls[k].op = "loadChats"}

\* C17 (one loadChats fetch at a time): a loadChats call made while a
\* loadChats fetch is outstanding starts no fetch, and never are two
\* fetches started by loadChats outstanding together.
C17_SingleLoadFetch ==
    /\ [][(LoadChats /\ LoadChatsFetches # {}) =>
             /\ calls' = calls
             /\ lastOp'.outcome = "skipped"]_vars
    /\ [](Cardinality(LoadChatsFetches) <= 1)

\* Call k of loadChats merges the list it fetched.
LoadChatsMerges(k) ==
    /\ k \in LoadChatsFetches
    /\ k \notin DOMAIN calls'
    /\ lastOp'.name = "loadChatsResolve"

\* C18 (additive merge): after a successful loadChats the map holds every
\* chat of the fetched list as fetched, and every chat it held before that
\* the list does not hold, as it was.
C18_AdditiveMerge ==
    [][\A k \in CallIds :
         LoadChatsMerges(k) =>
            \E fetched \in {SrvChatList, LocalChatList} :
               /\ DOMAIN chats' = DOMAIN chats \cup DOMAIN fetched
               /\ \A c \in DOMAIN fetched : chats'[c] = fetched[c]
               /\ \A c \in DOMAIN chats \ DOMAIN fetched :
                     chats'[c] = chats[c]]_vars

\* After a loadChats the map holds a chat that the server's list omits and
\* a chat that the local list omits: whichever list was fetched, an entry
\* it omitted was kept.
C18_Witness ==
    /\ lastOp.name = "loadChatsResolve"
    /\ DOMAIN chats \ DOMAIN srvChats # {}
    /\ DOMAIN chats \ DOMAIN localChats # {}

\* C19 (delete after success only): the step that settles a deleteChat call
\* removes the chat from the map when the DELETE succeeded; when the DELETE
\* failed it leaves the map untouched and the call is rejected.
C19_DeleteAfterSuccess ==
    [][\A k \in CallIds :
         /\ DeleteChatResolve(k, TRUE) =>
               chats' = MapDelete(chats, calls[k].chat)
         /\ (DeleteChatResolve(k, FALSE) \/ DeleteChatReject(k)) =>
               /\ chats' = chats
               /\ lastOp'.outcome = "rethrown"]_vars

\* The pages 1..n in order.
PagesUpTo(n) == [i \in 1..n |-> i]

\* C20 (cursor advanced before the fetch returns): loadChatQueries requests
\* the page of the chat's cursor, 1 when unset, and stores that page plus
\* one in the step that sends the request; the calls made on a chat since
\* its cursor was set to 1 have requested the pages 1..k in order, each
\* once, whether or not earlier calls are outstanding.
C20_PagesOnce ==
    /\ [][\A c \in AllChatIds :
            LoadChatQueries(c) =>
               /\ \E k \in DOMAIN calls' \ DOMAIN calls :
                     /\ calls'[k].op = "loadChatQueries"
                     /\ calls'[k].chat = c
                     /\ calls'[k].page = CurrentPage(c)
               /\ chatsPages'[c] = CurrentPage(c) + 1]_vars
    /\ [](\A c \in AllChatIds :
            requested[c] = PagesUpTo(Len(requested[c])))

\* Three calls were made on the loaded chat c1 and the last two, for the
\* pages 2 and 3, are outstanding together.
C20_Witness ==
    /\ "c1" \in DOMAIN chats
    /\ requested["c1"] = <<1, 2, 3>>
    /\ \E j, k \in InFlight :
          /\ calls[j].op = "loadChatQueries" /\ calls[j].chat = "c1"
          /\ calls[k].op = "loadChatQueries" /\ calls[k].chat = "c1"
          /\ calls[j].page = 2
          /\ calls[k].page = 3

(***************************************************************************)
(* Properties of failing reads, pagination, independence of chats, the     *)
(* last-used marker and the id filter, under Spec.                         *)
(***************************************************************************)
\* The fetch of loadChatQueries call k failed: getChatQueries fell back to
\* localStorage, or the fallback threw.
QueriesFetchFailed(k) ==
    LoadChatQueriesResolve(k, FALSE) \/ LoadChatQueriesReject(k)

\* The fetch of loadChats call k failed, likewise.
ChatsFetchFailed(k) == LoadChatsResolve(k, FALSE) \/ LoadChatsReject(k)

\* C21 (failing reads leave the state intact): when the fetch of a loadChats
\* call or of a loadChatQueries call fails, the map with every chat's list
\* and totalQueries is as it was, the error is raised to the caller, and,
\* no other call having moved the chat's cursor, the cursor is back at the
\* page the call asked for.
C21_FailedReadIntact ==
    [][\A k \in CallIds :
         /\ ChatsFetchFailed(k) =>
               /\ chats' = chats
               /\ lastOp'.outcome = "rethrown"
         /\ QueriesFetchFailed(k) =>
               /\ chats' = chats
               /\ lastOp'.outcome = "rethrown"
               /\ \A c \in AllChatIds :
                     (calls[k].chat = c /\ calls[k].alone) =>
                        CurrentPage(c)' = calls[k].page]_vars

Min(a, b) == IF a < b THEN a ELSE b

\* No call is outstanding on chat c.
Settled(c) == \A k \in InFlight : calls[k].chat # c

\* C22 (sequential pagination), under PagingSpec: after N awaited
\* loadChatQueries calls on a chat that was loaded without queries, the
\* server holding T queries for it, the chat holds min(N * PageSize, T)
\* queries with pairwise distinct ids, and no step shortens a chat's list.
C22_SequentialPaging ==
    /\ [](\A c \in DOMAIN chats :
            Settled(c) =>
               /\ Len(chats[c].queries) =
                     Min(Len(requested[c]) * PageSize, Len(srvChats[c]))
               /\ NoDuplicateIds(chats[c].queries))
    /\ [][\A c \in DOMAIN chats :
            /\ c \in DOMAIN chats'
            /\ Len(chats'[c].queries) >= Len(chats[c].queries)]_vars

\* Three awaited calls on c1, for which the server holds two queries: the
\* chat holds both.
C22_Witness ==
    /\ "c1" \in DOMAIN chats
    /\ Settled("c1")
    /\ Len(srvChats["c1"]) = 2
    /\ requested["c1"] = <<1, 2, 3>>
    /\ Len(chats["c1"].queries) = 2

\* Call k is a sendQuery call on a chat of the map whose list is the list
\* the call found followed by the call's placeholder.
PlaceholderPending(k) ==
    /\ k \in InFlight
    /\ calls[k].op = "sendQuery"
    /\ calls[k].chat \in DOMAIN chats
    /\ chats[calls[k].chat].queries =
          Append(calls[k].before, CreateDummyQuery(calls[k].message))

\* C23 (chats are independent): an abortLastQuery issued while a sendQuery
\* on a chat is in flight, its placeholder pending, removes that placeholder
\* and leaves the chat's list as the call found it, whatever was started or
\* completed on other chats.
C23_ChatsIndependent ==
    [][AbortLastQuery =>
         \A k \in CallIds, c \in AllChatIds :
            (PlaceholderPending(k) /\ calls[k].chat = c) =>
               chats'[c].queries = calls[k].before]_vars

\* The request of call k (list chats, list queries, delete chat) is
\* answered 401 and the ChatbotApi method settles.
AnsweredUnauthorized(k) ==
    \/ LoadChatsResolve(k, HttpClientOk(401))
    \/ RefreshChatsResolve(k, HttpClientOk(401))
    \/ LoadChatQueriesResolve(k, HttpClientOk(401))
    \/ DeleteChatResolve(k, HttpClientOk(401))

\* C24 (authenticated calls): every request of ChatbotApi goes out with the
\* stored access token as bearer, and when one is answered 401 while a
\* refresh token is stored the token pair is refreshed and the call stays
\* outstanding for its retry instead of settling.
C24_RefreshOnUnauthorized ==
    /\ [](\A k \in InFlight : calls[k].header = Bearer(accessToken))
    /\ [][\A k \in CallIds :
            (AnsweredUnauthorized(k) /\ refreshTok # 0) =>
               /\ accessToken' # accessToken
               /\ refreshTok' # refreshTok
               /\ k \in DOMAIN calls']_vars

\* The entries of a list.
Entries(qs) == {qs[i] : i \in 1..Len(qs)}

\* Call k of sendQuery settles on a chat of the map whose list is again the
\* list the call found: its placeholder was removed meanwhile.
SettlesAfterRemoval(k) ==
    /\ SendQueryResolve(k) \/ SendQueryReject(k)
    /\ ~calls[k].clean
    /\ calls[k].chat \in DOMAIN chats
    /\ chats[calls[k].chat].queries = calls[k].before

\* C25 (abort during a send): an abortLastQuery issued while the sendQuery
\* it is aimed at is in flight removes that call's placeholder and clears
\* the marker, and when the response or the error of the aborted request
\* arrives every query the list held before the call is still in it.
C25_AbortKeepsEarlierQueries ==
    /\ [][AbortLastQuery =>
            \A k \in CallIds, c \in AllChatIds :
               (PlaceholderPending(k) /\ calls[k].chat = c
                   /\ lastUsedChat = c) =>
                  /\ chats'[c].queries = calls[k].before
                  /\ lastUsedChat' = ""]_vars
    /\ [][\A k \in CallIds, c \in AllChatIds :
            (SettlesAfterRemoval(k) /\ calls[k].chat = c) =>
               Entries(calls[k].before) \subseteq Entries(chats'[c].queries)]_vars

\* The last n entries of a list.
LastN(qs, n) == SubSeq(qs, Len(qs) - n + 1, Len(qs))

\* Call k of sendQuery resolves on chat c right after another sendQuery call
\* on c resolved: the two were in flight together and k is the second to
\* settle.
SecondSendResolves(k, c) ==
    /\ SendQueryResolve(k)
    /\ calls[k].chat = c
    /\ c \in DOMAIN chats
    /\ lastOp.name = "sendQueryResolve"
    /\ lastOp.chat = c
    /\ lastOp.outcome = "ok"

\* C26 (two sends on one chat): when the second of two sendQuery calls that
\* were in flight together on a chat resolves, the first having resolved,
\* the chat's list holds the two queries the server created for them, no
\* placeholder, and every query the list held before.
C26_TwoSendsBothKept ==
    [][\A k \in CallIds, c \in AllChatIds :
         SecondSendResolves(k, c) =>
            /\ Entries(MapQueries(LastN(srvChats'[c], 2)))
                  \subseteq Entries(chats'[c].queries)
            /\ \A q \in Entries(chats'[c].queries) : ~IsPlaceholder(q)
            /\ \A q \in Entries(calls[k].before) :
                  ~IsPlaceholder(q) => q \in Entries(chats'[c].queries)]_vars

\* A step of an engine operation whose target chat is not in the map: a
\* sendQuery call, the settlement of a sendQuery or loadChatQueries call, or
\* an abortLastQuery whose marker names the chat.
TargetsMissingChat ==
    \/ \E c \in AllChatIds \ DOMAIN chats, m \in Messages : SendQuery(c, m)
    \/ \E k \in CallIds :
          /\ k \in InFlight
          /\ calls[k].chat \notin DOMAIN chats
          /\ \/ SendQueryResolve(k)
             \/ SendQueryReject(k)
             \/ \E status \in Statuses :
                   LoadChatQueriesResolve(k, HttpClientOk(status))
    \/ AbortLastQuery /\ lastUsedChat # "" /\ lastUsedChat \notin DOMAIN chats

\* C27 (operations on a chat that is not in the map): such a step leaves
\* the map unchanged, leaves no marker naming a chat that is not in the map,
\* and raises no error of its own.
C27_MissingChatHarmless ==
    [][TargetsMissingChat =>
          /\ chats' = chats
          /\ lastUsedChat' = "" \/ lastUsedChat' \in DOMAIN chats'
          /\ lastOp'.outcome # "TypeError"]_vars

\* C28 (loadChats keeps loaded queries): when a loadChats call resolves,
\* every chat that was in the map still holds every query it held, a
\* pending placeholder included.
C28_LoadChatsKeepsQueries ==
    [][\A k \in CallIds :
         LoadChatsMerges(k) =>
            \A c \in DOMAIN chats :
               Entries(chats[c].queries)
                  \subseteq Entries(chats'[c].queries)]_vars

\* C29 (last-used marker): in every state lastUsedChat is empty or names a
\* chat of the map on which a sendQuery call is in flight, and every step
\* that ends a sendQuery call, or fails to start one, leaves it empty.
C29_MarkerNamesSendInFlight ==
    /\ [](lastUsedChat = "" \/
            /\ lastUsedChat \in DOMAIN chats
            /\ SendCalls(lastUsedChat) # {})
    /\ [][(\/ \E k \in CallIds : SendQueryResolve(k) \/ SendQueryReject(k)
           \/ AbortLastQuery
           \/ \E c \in AllChatIds, m \in Messages :
                 SendQuery(c, m) /\ calls' = calls) =>
             lastUsedChat' = ""]_vars

\* The index at which id first occurs in qs.
FirstIndex(qs, id) ==
    CHOOSE i \in 1..Len(qs) :
       qs[i].id = id /\ \A j \in 1..(i - 1) : qs[j].id # id

\* r is qs with only the first occurrence of each id kept, in qs's order.
IsFirstOccurrences(r, qs) ==
    /\ NoDuplicateIds(r)
    /\ Ids(r) = Ids(qs)
    /\ \A i \in 1..Len(r) : r[i] = qs[FirstIndex(qs, r[i].id)]
    /\ \A i, j \in 1..Len(r) :
          i < j => FirstIndex(qs, r[i].id) < FirstIndex(qs, r[j].id)

\* The change of totalQueries for a list of size old replaced by one of
\* size new.
SizeSign(old, new) == IF new > old THEN 1 ELSE IF new < old THEN -1 ELSE 0

\* Chat c's list is replaced by the filtered form of updated, and its
\* totalQueries follows the sizes when syncing and stays otherwise.
MutatedTo(c, updated, sync) ==
    /\ c \in DOMAIN chats'
    /\ IsFirstOccurrences(chats'[c].queries, updated)
    /\ chats'[c].totalQueries =
          chats[c].totalQueries +
             (IF sync
              THEN SizeSign(Len(chats[c].queries), Len(chats'[c].queries))
              ELSE 0)

\* C30 (filter and count): every mutation of a chat's list through the
\* engine (the placeholder appended, the placeholder popped and the
\* response or the failed query pushed, the abort's pop, a page merged)
\* leaves the first occurrence of each id in the original order;
\* totalQueries moves by the sign of the filtered size against the previous
\* size when syncing, and a page merge leaves it unchanged.
C30_FilterAndCount ==
    [][\A c \in DOMAIN chats :
         LET qs == chats[c].queries
         IN /\ \A m \in Messages :
                  SendQuery(c, m) =>
                     MutatedTo(c, Push(qs, CreateDummyQuery(m)), TRUE)
            /\ \A k \in CallIds :
                  (SendQueryResolve(k) /\ calls[k].chat = c) =>
                     MutatedTo(c, Push(Pop(qs),
                                       MapQuery(RawQuery(srvNext + 1,
                                                         calls[k].message))),
                               TRUE)
            /\ \A k \in CallIds :
                  (SendQueryReject(k) /\ calls[k].chat = c) =>
                     \E error \in Errors :
                        MutatedTo(c, Push(Pop(qs),
                                          SendFailedQuery(
                                             CreateDummyQuery(calls[k].message),
                                             calls[k].message, error)),
                                  TRUE)
            /\ (AbortLastQuery /\ lastUsedChat = c) =>
                  MutatedTo(c, Pop(qs), TRUE)
            /\ \A k \in CallIds, status \in Statuses :
                  (LoadChatQueriesResolve(k, HttpClientOk(status))
                      /\ calls[k].chat = c) =>
                     MutatedTo(c, qs \o GetChatQueries(HttpClientOk(status), c,
                                                       calls[k].page),
                               FALSE)]_vars

\* A second placeholder was appended to c2's list and filtered out: the list
\* and totalQueries count the first one only.
C30_Witness ==
    /\ lastOp.name = "sendQuery"
    /\ lastOp.chat = "c2"
    /\ Cardinality(SendCalls("c2")) = 2
    /\ "c2" \in DOMAIN chats
    /\ Len(chats["c2"].queries) = 1
    /\ chats["c2"].totalQueries = 1

=============================================================================
